---- MODULE Spec2Model ----
(***************************************************************************)
(* Model of app_quitter.py (mhrono/Auto-Update): one jamf policy run of    *)
(* the script per invocation, re-invoked later by the policy or by the     *)
(* LaunchDaemon that set_deferral writes.  Files on disk (deferral         *)
(* counter, install receipt, LaunchDaemons) persist between invocations;   *)
(* module globals (DEFER_LIMIT, defer_count) live for one invocation.      *)
(* One "cycle" is one iteration of the loop `for bid in APPS` in run().    *)
(* File-system and subprocess calls are taken to succeed.                  *)
(* silent_update.py, the other script of the repository, is modelled by    *)
(* the variable `silent` and checked under SpecSilent.                     *)
(***************************************************************************)
EXTENDS Integers, Sequences, FiniteSets, TLC

VARIABLES
    APPS,          \* sys.argv[4].split(","): the bundle IDs, in order
    PROMPT,        \* sys.argv[5].lower() == 'true'
    POLICY_EVENT,  \* sys.argv[7]
    FORCE_QUIT,    \* sys.argv[8].lower() == 'true'
    argLimit,      \* int(sys.argv[10])
    DEFER_LIMIT,   \* module global, set at start-up, zeroed by check_install_date
    date_today,    \* day number of datetime.now()
    running,       \* bundle ID -> is the application running
    defer_file,    \* the plist check_deferral_count reads: NoFile or [limit, used]
    counter_file,  \* does .../appUpdates/policydefer_<event>.plist exist
    receipt_file,  \* NoFile or [date]: the day number stored in the receipt
    daemons,       \* the LaunchDaemon plists of POLICY_EVENT: set of [stamp, interval]
    pc,            \* position of the running script
    bidx,          \* index into APPS of the loop in run()
    i,             \* loop counter of check_for_zoom / quit_application
    prompt,        \* description text of the dialog being presented
    reopen_app,    \* parameter of the active user_prompt call
    defer_count,   \* module global: the record loaded by check_deferral_count
    out,           \* local of user_prompt: stdout of jamfHelper, a sequence of characters
    returncode,    \* proc.returncode of jamfHelper
    sig,           \* signals sent so far by the running quit_application
    cyc,           \* what has been observed during the current cycle
    silent         \* silent_update.py: its parameters, the machine it sees, its run

vars == <<APPS, PROMPT, POLICY_EVENT, FORCE_QUIT, argLimit, DEFER_LIMIT, date_today,
          running, defer_file, counter_file, receipt_file, daemons, pc, bidx, i,
          prompt, reopen_app, defer_count, out, returncode, sig, cyc, silent>>

config == <<APPS, PROMPT, POLICY_EVENT, FORCE_QUIT, argLimit>>

----------------------------------------------------------------------------
(* Bound of the model *)

\* midnights that may pass between invocations
MaxDaysElapsed == 1

(* Program constants *)

DefaultLimit == 14
SlaDays == 120
ZoomPolls == 10
QuitTicks == 30
ForceAfter == 10
RetryHour == 3600
SkipCode == 239
KilledRc == -9

orgName == ""

\* os.path.exists(...) is False
NoFile == [exists |-> FALSE]

\* day number of the first invocation
FirstDay == SlaDays + 1

\* the receipt of an install `age` days before the first invocation
ReceiptAged(age) == [date |-> FirstDay - age]

\* The parameters jamf passes and the receipt found at the first invocation:
\* every PROMPT and FORCE_QUIT with a limit of 1 and every kind of receipt;
\* the limits 0 and 14 with a receipt at and past the 120 days.
Setups ==
    [apps : {<<"a">>}, event : {"autoupdate"}, prompt : BOOLEAN, force : BOOLEAN,
     limit : {1},
     receipt : {NoFile, ReceiptAged(0), ReceiptAged(SlaDays), ReceiptAged(SlaDays + 1)}]
    \cup
    [apps : {<<"a">>}, event : {"autoupdate"}, prompt : {TRUE}, force : {FALSE},
     limit : {0, DefaultLimit},
     receipt : {ReceiptAged(SlaDays), ReceiptAged(SlaDays + 1)}]

\* -showDelayOptions "0, 600, 1200, 3600, 10800, 86400, 172800"
DelayOptions == {0, 600, 1200, 3600, 10800, 86400, 172800}

Digits == {"0", "1", "2", "3", "4", "5", "6", "7", "8", "9"}

\* exit statuses of a jamfHelper process that was not killed
DialogRcs == {0, 1}

\* exit statuses of `jamf policy -event`
PolicyRcs == {0, 1}

----------------------------------------------------------------------------
(* int(), str()[-1] and out[:-1] on the dialog output *)

DigitVal(c) ==
    CASE c = "0" -> 0 [] c = "1" -> 1 [] c = "2" -> 2 [] c = "3" -> 3
      [] c = "4" -> 4 [] c = "5" -> 5 [] c = "6" -> 6 [] c = "7" -> 7
      [] c = "8" -> 8 [] c = "9" -> 9

\* int(out) raises ValueError on an empty or non-numeric string
Parses(o) == o # <<>> /\ \A k \in 1..Len(o) : o[k] \in Digits

RECURSIVE int(_)
int(s) == IF s = <<>> THEN 0
          ELSE 10 * int(SubSeq(s, 1, Len(s) - 1)) + DigitVal(s[Len(s)])

exit_code(o) == int(o)

\* str(n) of an n >= 0
RECURSIVE str(_)
str(n) == IF n < 10 THEN <<CHOOSE c \in Digits : DigitVal(c) = n>>
          ELSE Append(str(n \div 10), CHOOSE c \in Digits : DigitVal(c) = n % 10)

\* int(str(exit_code)[-1])
button_selected(o) == exit_code(o) % 10

\* deferral_seconds taken from the whole of out, button digit included
deferral_seconds_whole(o) == int(o)

\* int(out[:-1]) if len(out) > 1 else 0
deferral_seconds(o) == IF Len(o) > 1 THEN int(SubSeq(o, 1, Len(o) - 1)) ELSE 0

\* what jamfHelper may leave on stdout, as a sequence of characters: nothing,
\* no number, a button alone, 239, or the chosen delay followed by the button
\* (the delay only when -showDelayOptions was passed)
DialogOuts(delays) ==
    {<<>>, <<"x">>, str(0), str(1), str(2), str(SkipCode)}
    \cup (IF delays THEN {Append(str(d), "1") : d \in DelayOptions \ {0}}
                          \cup {Append(str(d), "2") : d \in {600}}
                     ELSE {})

----------------------------------------------------------------------------
(* The files *)

Used(f) == IF f = NoFile THEN 0 ELSE f.used

Range(s) == {s[k] : k \in 1..Len(s)}

\* "/Library/Application Support/{orgName}" against ".../appUpdates"
SamePath == orgName = "appUpdates"

\* remove_daemons with a pattern that matches no file
remove_daemons_none(ds) == ds

\* glob of com.appUpdates.policydefer.*.<event>.plist, os.remove on each match
remove_daemons(ds) == {}

\* int(time.time()) of a new daemon: later than that of every daemon on disk
daemon_time(ds) == IF ds = {} THEN 1 ELSE 1 + Cardinality(ds)

\* set_deferral without its call of remove_daemons
set_deferral_keep(ds, period) ==
    ds \cup {[stamp |-> daemon_time(ds), interval |-> period]}

\* set_deferral: remove_daemons(POLICY_EVENT), then write and load one daemon
set_deferral(ds, period) ==
    LET kept == remove_daemons(ds)
    IN  kept \cup {[stamp |-> daemon_time(kept), interval |-> period]}

\* DEFER_LIMIT = int(sys.argv[10]) or 14
StartLimit(n) == IF n # 0 THEN n ELSE DefaultLimit

\* check_install_date: the DEFER_LIMIT it leaves behind
check_install_date(limit, receipt, today) ==
    IF receipt = NoFile THEN limit
    ELSE IF today - receipt.date > SlaDays THEN 0 ELSE limit

\* check_deferral_count, first half: the file after the lazy creation
LedgerAfterLoad(f, limit) ==
    IF f = NoFile THEN [limit |-> limit, used |-> 0] ELSE f

\* check_deferral_count, second half: True when deferrals remain
check_deferral_count(f, limit) == ~(LedgerAfterLoad(f, limit).used >= limit)

----------------------------------------------------------------------------
(* What one cycle has done so far *)

BlankCycle ==
    [bid |-> "none",
     running0 |-> FALSE,    \* check_if_running(bid) at cycle start
     timers0 |-> 0,         \* LaunchDaemons on disk at cycle start
     used0 |-> 0,           \* persisted used count at cycle start
     receipt0 |-> NoFile,   \* receipt at cycle start
     limit |-> 0,           \* DEFER_LIMIT after check_install_date
     zoomed |-> FALSE,      \* check_for_zoom was called
     prompted |-> FALSE,    \* the dialog before the install was presented
     menu |-> FALSE,        \* ... with -showDelayOptions
     msg |-> "none",        \* ... with this description
     killed |-> FALSE,      \* ... and was killed by the 300 s timer
     empty |-> FALSE,       \* ... and left nothing on stdout
     kind |-> "none",       \* ... and its result was taken for this
     handed |-> FALSE,      \* quit_application was called
     terminated |-> FALSE,  \* app.terminate() was called
     forced |-> FALSE,      \* app.forceTerminate() was called
     installed |-> FALSE,   \* jamf policy -event was called
     failed |-> FALSE,      \* ... and returned a non-zero status
     retries |-> <<>>,      \* periods passed to set_deferral
     reopened |-> FALSE,    \* the completion dialog was presented
     relaunched |-> FALSE,  \* /usr/bin/open -a was called
     exit |-> "none"]       \* "0" once sys.exit(0) was called

FreshCycle(b) ==
    [BlankCycle EXCEPT !.bid = b, !.running0 = running[b],
                       !.timers0 = Cardinality(daemons),
                       !.used0 = Used(defer_file),
                       !.receipt0 = receipt_file, !.limit = DEFER_LIMIT]

NoSignals == [nTerminate |-> 0, nForce |-> 0]

bid == APPS[bidx]

----------------------------------------------------------------------------
(* The parameters and the machine of silent_update.py *)

\* sys.argv[4].split(","): one bundle ID, or two when the developer changed it
SilentApps == {<<"a">>, <<"a", "b">>, <<"b", "a">>}

\* sys.argv[6]
SilentVersion == "2"

\* what `defaults read <app>/Contents/Info.plist` prints for CFBundleVersion
\* and CFBundleShortVersionString; nothing at all when mdfind finds no app
InfoPlists ==
    {[CFBundleVersion |-> "", CFBundleShortVersionString |-> ""],
     [CFBundleVersion |-> "1", CFBundleShortVersionString |-> "1"],
     [CFBundleVersion |-> "2", CFBundleShortVersionString |-> "1"],
     [CFBundleVersion |-> "1", CFBundleShortVersionString |-> "2"]}

\* silent_update.py is not running
SilentIdle ==
    [pc |-> "idle", APPS |-> <<"a">>, VERSION |-> SilentVersion,
     running |-> [b \in {"a"} |-> FALSE],
     plist |-> [b \in {"a"} |-> [CFBundleVersion |-> "",
                                  CFBundleShortVersionString |-> ""]],
     idx |-> 1, app |-> "none", policy |-> FALSE, recon |-> FALSE]

----------------------------------------------------------------------------
(* Start-up and the loop of run() *)

Idle ==
    /\ pc = "idle" /\ bidx = 1 /\ i = 0 /\ prompt = "none" /\ reopen_app = FALSE
    /\ DEFER_LIMIT = StartLimit(argLimit) /\ defer_count = NoFile
    /\ out = <<>> /\ returncode = 0 /\ sig = NoSignals
    /\ cyc = BlankCycle

Init ==
    /\ date_today = FirstDay
    /\ \E s \in Setups :
         /\ APPS = s.apps /\ POLICY_EVENT = s.event
         /\ PROMPT = s.prompt /\ FORCE_QUIT = s.force /\ argLimit = s.limit
         /\ receipt_file = s.receipt
    /\ running \in [Range(APPS) -> BOOLEAN]
    /\ defer_file = NoFile
    /\ counter_file = FALSE
    /\ daemons = {}
    /\ silent = SilentIdle
    /\ Idle

\* The parameters of a run whose POLICY_EVENT asks for no install
EventSetups ==
    [apps : {<<"a">>}, event : {"", "false"}, prompt : {TRUE}, force : BOOLEAN,
     limit : {1}, receipt : {NoFile}]

InitEvent ==
    /\ date_today = FirstDay
    /\ \E s \in EventSetups :
         /\ APPS = s.apps /\ POLICY_EVENT = s.event
         /\ PROMPT = s.prompt /\ FORCE_QUIT = s.force /\ argLimit = s.limit
         /\ receipt_file = s.receipt
    /\ running \in [Range(APPS) -> BOOLEAN]
    /\ defer_file = NoFile
    /\ counter_file = FALSE
    /\ daemons = {}
    /\ silent = SilentIdle
    /\ Idle

\* jamf runs the script: module level code, lines 68-82, and run() up to the loop
Invoke ==
    /\ pc = "idle"
    /\ pc' = "for"
    /\ DEFER_LIMIT' = StartLimit(argLimit)
    /\ UNCHANGED <<silent, config, date_today, running, defer_file, counter_file,
                   receipt_file, daemons, bidx, i, prompt, reopen_app, defer_count,
                   out, returncode, sig, cyc>>

\* `if not event: return`
policy_runs == POLICY_EVENT # ""

\* run_update_policy that records the date of a successful install only
run_update_policy_checked(rc) ==
    /\ defer_file' = IF policy_runs /\ SamePath THEN NoFile ELSE defer_file
    /\ counter_file' = IF policy_runs THEN FALSE ELSE counter_file
    /\ receipt_file' = IF policy_runs /\ rc = 0 THEN [date |-> date_today]
                                                ELSE receipt_file

\* run_update_policy(POLICY_EVENT): the files it leaves when jamf returns rc;
\* write_install_date() is called before proc.returncode is looked at
run_update_policy(rc) ==
    /\ defer_file' = IF policy_runs /\ SamePath THEN NoFile ELSE defer_file
    /\ counter_file' = IF policy_runs THEN FALSE ELSE counter_file
    /\ receipt_file' = IF policy_runs THEN [date |-> date_today] ELSE receipt_file

\* the loop is exhausted: run() returns and the interpreter exits
LoopEnd ==
    /\ pc = "for" /\ bidx > Len(APPS)
    /\ pc' = "exited"
    /\ UNCHANGED <<silent, config, DEFER_LIMIT, date_today, running, defer_file, counter_file,
                   receipt_file, daemons, bidx, i, prompt, reopen_app, defer_count,
                   out, returncode, sig, cyc>>

\* lines 506-510: the app is not running
AppNotRunning ==
    /\ pc = "for" /\ bidx <= Len(APPS)
    /\ ~running[bid]
    /\ \E rc \in PolicyRcs :
         /\ run_update_policy(rc)
         /\ cyc' = [FreshCycle(bid) EXCEPT !.installed = policy_runs,
                                           !.failed = policy_runs /\ rc # 0,
                                           !.exit = "0"]
    /\ daemons' = remove_daemons(daemons)
    /\ pc' = "exited"
    /\ UNCHANGED <<silent, config, DEFER_LIMIT, date_today, running, bidx, i, prompt,
                   reopen_app, defer_count, out, returncode, sig>>

\* lines 511-518: the app is running; check_install_date, then the forced
\* prompt or the Zoom check
AppIsRunning ==
    /\ pc = "for" /\ bidx <= Len(APPS)
    /\ running[bid]
    /\ DEFER_LIMIT' = check_install_date(DEFER_LIMIT, receipt_file, date_today)
    /\ IF FORCE_QUIT
         THEN /\ pc' = "user_prompt" /\ prompt' = "FORCE_MSG"
              /\ cyc' = [FreshCycle(bid) EXCEPT !.limit = DEFER_LIMIT']
         ELSE /\ pc' = "check_for_zoom" /\ prompt' = "none"
              /\ cyc' = [FreshCycle(bid) EXCEPT !.limit = DEFER_LIMIT', !.zoomed = TRUE]
    /\ i' = 0
    /\ reopen_app' = FALSE
    /\ UNCHANGED <<silent, config, date_today, running, defer_file, counter_file, receipt_file,
                   daemons, bidx, defer_count, out, returncode, sig>>

\* the process is gone; its globals with it
Reap ==
    /\ pc = "exited"
    /\ pc' = "idle" /\ bidx' = 1 /\ i' = 0 /\ prompt' = "none" /\ reopen_app' = FALSE
    /\ DEFER_LIMIT' = StartLimit(argLimit) /\ defer_count' = NoFile
    /\ out' = <<>> /\ returncode' = 0 /\ sig' = NoSignals
    /\ cyc' = BlankCycle
    /\ UNCHANGED <<silent, config, date_today, running, defer_file, counter_file, receipt_file,
                   daemons>>

----------------------------------------------------------------------------
(* check_for_zoom and the retry of lines 526-528 *)

\* check_for_zoom returning True at the first pass that finds CptHost
ZoomPoll_hasty(zoompid) ==
    /\ pc = "check_for_zoom"
    /\ IF zoompid
         THEN /\ daemons' = set_deferral(daemons, RetryHour)
              /\ cyc' = [cyc EXCEPT !.retries = Append(@, RetryHour), !.exit = "0"]
              /\ pc' = "exited"
              /\ i' = i
         ELSE /\ UNCHANGED <<daemons, cyc>>
              /\ pc' = "user_prompt" /\ i' = 0
    /\ UNCHANGED <<silent, config, DEFER_LIMIT, date_today, running, defer_file, counter_file,
                   receipt_file, bidx, prompt, reopen_app, defer_count, out,
                   returncode, sig>>

\* one pass of the loop of check_for_zoom; zoompid: pgrep found CptHost
ZoomPoll(zoompid) ==
    /\ pc = "check_for_zoom"
    /\ IF i = ZoomPolls - 1 /\ zoompid
         THEN /\ daemons' = set_deferral(daemons, RetryHour)
              /\ cyc' = [cyc EXCEPT !.retries = Append(@, RetryHour), !.exit = "0"]
              /\ pc' = "exited"
              /\ i' = i
         ELSE /\ UNCHANGED <<daemons, cyc>>
              /\ IF ~zoompid THEN pc' = "user_prompt" /\ i' = 0
                             ELSE pc' = pc /\ i' = i + 1
    /\ UNCHANGED <<silent, config, DEFER_LIMIT, date_today, running, defer_file, counter_file,
                   receipt_file, bidx, prompt, reopen_app, defer_count, out,
                   returncode, sig>>

check_for_zoom == \E zoompid \in BOOLEAN : ZoomPoll(zoompid)

----------------------------------------------------------------------------
(* user_prompt *)

\* lines 337-348: build the command and start jamfHelper
PresentPrompt ==
    /\ pc = "user_prompt"
    /\ IF reopen_app
         THEN /\ UNCHANGED <<prompt, defer_file, defer_count>>
              /\ cyc' = [cyc EXCEPT !.reopened = TRUE]
         ELSE LET offer == check_deferral_count(defer_file, DEFER_LIMIT)
                  text == IF offer THEN "DEFER_MESSAGE" ELSE "MESSAGE"
              IN  /\ defer_file' = LedgerAfterLoad(defer_file, DEFER_LIMIT)
                  /\ defer_count' = defer_file'
                  /\ prompt' = text
                  /\ cyc' = [cyc EXCEPT !.prompted = TRUE, !.menu = offer, !.msg = text]
    /\ pc' = "communicate"
    /\ UNCHANGED <<silent, config, DEFER_LIMIT, date_today, running, counter_file, receipt_file,
                   daemons, bidx, i, reopen_app, out, returncode, sig>>

\* proc.communicate() returns: the user answered, or jamfHelper ended by itself
DialogReturns ==
    /\ pc = "communicate"
    /\ out' \in DialogOuts(prompt = "DEFER_MESSAGE")
    /\ returncode' \in DialogRcs
    /\ pc' = "parse"
    /\ UNCHANGED <<silent, config, DEFER_LIMIT, date_today, running, defer_file, counter_file,
                   receipt_file, daemons, bidx, i, prompt, reopen_app, defer_count,
                   sig, cyc>>

\* user_prompt without prompt_timer.start()
PromptTimerKill_unarmed ==
    /\ pc = "communicate"
    /\ FALSE
    /\ UNCHANGED vars

\* Timer(300, kill, [proc]) fires first: nothing on stdout, returncode -9
PromptTimerKill ==
    /\ pc = "communicate"
    /\ out' = <<>>
    /\ returncode' = KilledRc
    /\ pc' = "parse"
    /\ cyc' = IF reopen_app THEN cyc ELSE [cyc EXCEPT !.killed = TRUE]
    /\ UNCHANGED <<silent, config, DEFER_LIMIT, date_today, running, defer_file, counter_file,
                   receipt_file, daemons, bidx, i, prompt, reopen_app, defer_count,
                   sig>>

\* lines 369-411: what the result is taken for
Decode(o, rc, text, force, reopen) ==
    IF ~Parses(o) THEN "unparseable"
    ELSE IF text = "MESSAGE" \/ force THEN "forced"
    ELSE IF exit_code(o) = SkipCode \/ o = <<>> THEN "skip"
    ELSE IF button_selected(o) = 1 /\ exit_code(o) # 1 /\ ~reopen THEN "defer"
    ELSE IF rc = 0 THEN "ok"
    ELSE "no"

\* the value user_prompt returns
Returns(kind) == kind \in {"forced", "ok"}

\* lines 520-524: `if user_prompt() or not PROMPT`
Proceeds(ret, allow) == ret \/ ~allow

\* lines 366-411 on the result, and the caller's next lines in run()
Parse ==
    /\ pc = "parse"
    /\ LET kind == Decode(out, returncode, prompt, FORCE_QUIT, reopen_app)
           period == IF kind = "unparseable" THEN RetryHour ELSE deferral_seconds(out)
           sets == kind \in {"unparseable", "defer"}
           ds == IF sets THEN set_deferral(daemons, period) ELSE daemons
           seen == IF reopen_app THEN cyc
                   ELSE [cyc EXCEPT !.kind = kind, !.empty = (out = <<>>)]
           noted == IF sets THEN [seen EXCEPT !.retries = Append(@, period)] ELSE seen
       IN  /\ defer_file' = IF kind = "defer"
                              THEN [limit |-> DEFER_LIMIT, used |-> defer_count.used + 1]
                              ELSE defer_file
           /\ IF reopen_app
                THEN \* line 531, then remove_daemons and the next bundle ID
                     /\ running' = IF kind = "ok" THEN [running EXCEPT ![bid] = TRUE]
                                                  ELSE running
                     /\ cyc' = [noted EXCEPT !.relaunched = (kind = "ok")]
                     /\ daemons' = remove_daemons(ds)
                     /\ pc' = "for" /\ bidx' = bidx + 1
                ELSE /\ running' = running
                     /\ daemons' = ds
                     /\ bidx' = bidx
                     /\ IF FORCE_QUIT \/ Proceeds(Returns(kind), PROMPT)
                          THEN /\ pc' = "quit_application"
                               /\ cyc' = [noted EXCEPT !.handed = TRUE]
                          ELSE /\ pc' = "exited"
                               /\ cyc' = [noted EXCEPT !.exit = "0"]
    /\ out' = <<>> /\ returncode' = 0
    /\ UNCHANGED <<silent, config, DEFER_LIMIT, date_today, counter_file, receipt_file, i,
                   prompt, reopen_app, defer_count, sig>>

----------------------------------------------------------------------------
(* quit_application(bid, force=FORCE_QUIT) *)

\* the escalation one pass late
Escalates_late(tick, alive) == tick > ForceAfter /\ alive

\* line 436: `if i >= 10 and not app.isTerminated()`
Escalates(tick, alive) == tick >= ForceAfter /\ alive

\* lines 425-434: look for the app, leave the loop or send the signal
QuitTick ==
    /\ pc = "quit_application"
    /\ IF ~running[bid]
         THEN /\ pc' = "run_update_policy"
              /\ i' = i /\ sig' = sig
              /\ cyc' = cyc
         ELSE /\ pc' = "quit_escalate"
              /\ i' = i
              /\ IF FORCE_QUIT
                   THEN /\ sig' = [sig EXCEPT !.nForce = @ + 1]
                        /\ cyc' = [cyc EXCEPT !.forced = TRUE]
                   ELSE /\ sig' = [sig EXCEPT !.nTerminate = @ + 1]
                        /\ cyc' = [cyc EXCEPT !.terminated = TRUE]
    /\ UNCHANGED <<silent, config, DEFER_LIMIT, date_today, running, defer_file, counter_file,
                   receipt_file, daemons, bidx, prompt, reopen_app, defer_count,
                   out, returncode>>

\* lines 436-441: escalate after ten passes, sleep a second, next pass
QuitEscalate ==
    /\ pc = "quit_escalate"
    /\ LET esc == Escalates(i, running[bid])
           sent == IF esc THEN [sig EXCEPT !.nForce = @ + 1] ELSE sig
       IN  /\ cyc' = IF esc THEN [cyc EXCEPT !.forced = TRUE] ELSE cyc
           /\ sig' = sent
           /\ i' = i + 1
           /\ pc' = IF i + 1 < QuitTicks THEN "quit_application"
                                         ELSE "run_update_policy"
    /\ UNCHANGED <<silent, config, DEFER_LIMIT, date_today, running, defer_file, counter_file,
                   receipt_file, daemons, bidx, prompt, reopen_app, defer_count,
                   out, returncode>>

\* lines 529-531: run_update_policy(POLICY_EVENT), then user_prompt(COMPLETE, ...)
Install ==
    /\ pc = "run_update_policy"
    /\ \E rc \in PolicyRcs :
         /\ run_update_policy(rc)
         /\ cyc' = [cyc EXCEPT !.installed = policy_runs,
                               !.failed = policy_runs /\ rc # 0]
    /\ pc' = "user_prompt" /\ prompt' = "COMPLETE" /\ reopen_app' = TRUE
    /\ i' = 0 /\ sig' = NoSignals
    /\ UNCHANGED <<silent, config, DEFER_LIMIT, date_today, running, daemons, bidx,
                   defer_count, out, returncode>>

----------------------------------------------------------------------------
(* The machine around the script *)

\* the application ends: the user quits it, or a signal took effect
AppStops ==
    \E b \in DOMAIN running :
        /\ running[b]
        /\ running' = [running EXCEPT ![b] = FALSE]
        /\ UNCHANGED <<silent, config, DEFER_LIMIT, date_today, defer_file, counter_file,
                       receipt_file, daemons, pc, bidx, i, prompt, reopen_app,
                       defer_count, out, returncode, sig, cyc>>

\* the user opens the application, between runs of the script
AppStarts ==
    \E b \in DOMAIN running :
        /\ pc = "idle"
        /\ ~running[b]
        /\ running' = [running EXCEPT ![b] = TRUE]
        /\ UNCHANGED <<silent, config, DEFER_LIMIT, date_today, defer_file, counter_file,
                       receipt_file, daemons, pc, bidx, i, prompt, reopen_app,
                       defer_count, out, returncode, sig, cyc>>

\* midnight, between runs of the script
DayPasses ==
    /\ pc = "idle"
    /\ date_today < FirstDay + MaxDaysElapsed
    /\ date_today' = date_today + 1
    /\ UNCHANGED <<silent, config, DEFER_LIMIT, running, defer_file, counter_file, receipt_file,
                   daemons, pc, bidx, i, prompt, reopen_app, defer_count, out,
                   returncode, sig, cyc>>

Next ==
    \/ Invoke
    \/ LoopEnd
    \/ AppNotRunning
    \/ AppIsRunning
    \/ check_for_zoom
    \/ PresentPrompt
    \/ DialogReturns
    \/ PromptTimerKill
    \/ Parse
    \/ QuitTick
    \/ QuitEscalate
    \/ Install
    \/ Reap
    \/ AppStops
    \/ AppStarts
    \/ DayPasses

Spec == Init /\ [][Next]_vars

\* the steps the script takes by itself: every call it makes returns, the
\* loops of check_for_zoom and quit_application sleep and go on, and the
\* Timer thread fires after 300 s; the user and the application (DialogReturns,
\* AppStops) need not do anything
ScriptStep ==
    \/ LoopEnd
    \/ AppNotRunning
    \/ AppIsRunning
    \/ check_for_zoom
    \/ PresentPrompt
    \/ PromptTimerKill
    \/ Parse
    \/ QuitTick
    \/ QuitEscalate
    \/ Install

\* The parameters of the runs followed to their end: every PROMPT and
\* FORCE_QUIT, a limit of 1, no receipt yet
FairSetups ==
    [apps : {<<"a">>}, event : {"autoupdate"}, prompt : BOOLEAN, force : BOOLEAN,
     limit : {1}, receipt : {NoFile}]

InitFair ==
    /\ date_today = FirstDay
    /\ \E s \in FairSetups :
         /\ APPS = s.apps /\ POLICY_EVENT = s.event
         /\ PROMPT = s.prompt /\ FORCE_QUIT = s.force /\ argLimit = s.limit
         /\ receipt_file = s.receipt
    /\ running \in [Range(APPS) -> BOOLEAN]
    /\ defer_file = NoFile
    /\ counter_file = FALSE
    /\ daemons = {}
    /\ silent = SilentIdle
    /\ Idle

SpecFair == InitFair /\ [][Next]_vars /\ WF_vars(ScriptStep)

\* The parameters of a run with two bundle IDs
AppsSetups ==
    [apps : {<<"a", "b">>}, event : {"autoupdate"}, prompt : {TRUE}, force : BOOLEAN,
     limit : {1}, receipt : {NoFile}]

InitApps ==
    /\ date_today = FirstDay
    /\ \E s \in AppsSetups :
         /\ APPS = s.apps /\ POLICY_EVENT = s.event
         /\ PROMPT = s.prompt /\ FORCE_QUIT = s.force /\ argLimit = s.limit
         /\ receipt_file = s.receipt
    /\ running \in [Range(APPS) -> BOOLEAN]
    /\ defer_file = NoFile
    /\ counter_file = FALSE
    /\ daemons = {}
    /\ silent = SilentIdle
    /\ Idle

\* the same script, run with sys.argv[4] = "a,b"
SpecApps == InitApps /\ [][Next]_vars

\* the same script, run with an empty POLICY_EVENT or with "false"
SpecEvent == InitEvent /\ [][Next]_vars

----------------------------------------------------------------------------
(* silent_update.py *)

\* check_version(bid): True when VERSION is neither of the two version strings
check_version(version, info) ==
    version # info.CFBundleVersion /\ version # info.CFBundleShortVersionString

InitSilent ==
    /\ \E apps \in SilentApps :
         \E r \in [Range(apps) -> BOOLEAN], v \in [Range(apps) -> InfoPlists] :
             silent = [SilentIdle EXCEPT !.pc = "for", !.APPS = apps,
                                         !.running = r, !.plist = v]
    /\ date_today = FirstDay
    /\ APPS = <<"a">> /\ POLICY_EVENT = "autoupdate"
    /\ PROMPT = TRUE /\ FORCE_QUIT = FALSE /\ argLimit = 1
    /\ receipt_file = NoFile
    /\ running = [b \in {"a"} |-> FALSE]
    /\ defer_file = NoFile
    /\ counter_file = FALSE
    /\ daemons = {}
    /\ Idle

\* the variables of app_quitter.py
quitter == <<config, DEFER_LIMIT, date_today, running, defer_file, counter_file,
             receipt_file, daemons, pc, bidx, i, prompt, reopen_app, defer_count,
             out, returncode, sig, cyc>>

\* `for app in APPS: if check_if_running(app): sys.exit(0)`
SilentFor ==
    /\ silent.pc = "for" /\ silent.idx <= Len(silent.APPS)
    /\ LET app == silent.APPS[silent.idx]
       IN  silent' = IF silent.running[app]
                       THEN [silent EXCEPT !.app = app, !.pc = "exited"]
                       ELSE [silent EXCEPT !.app = app, !.idx = @ + 1]
    /\ UNCHANGED quitter

\* the `else` of the loop, with `app` as the loop left it
SilentElse ==
    /\ silent.pc = "for" /\ silent.idx > Len(silent.APPS)
    /\ silent' = IF check_version(silent.VERSION, silent.plist[silent.app])
                    THEN [silent EXCEPT !.policy = TRUE, !.pc = "exited"]
                    ELSE [silent EXCEPT !.recon = TRUE, !.pc = "exited"]
    /\ UNCHANGED quitter

NextSilent == SilentFor \/ SilentElse

SpecSilent == InitSilent /\ [][NextSilent]_vars

----------------------------------------------------------------------------
(* The claims *)

\* the cycle of cyc.bid is over
CycleEnded == pc = "exited" \/ (pc = "for" /\ bidx > 1)

\* the result of the dialog before the install has been handled
Negotiated == cyc.prompted /\ cyc.kind # "none"

\* C1: in a non-forced cycle with allowPrompt true and the ledger exhausted (the
\* no-deferral message is shown), every raw dialog result, killed and
\* unparseable ones included, hands the target to the termination controller,
\* and the install is dispatched in that cycle.
C1_ExhaustedAlwaysProceeds ==
    (~FORCE_QUIT /\ PROMPT /\ Negotiated /\ cyc.msg = "MESSAGE")
        => /\ cyc.handed
           /\ CycleEnded => cyc.installed

\* C2: whenever the persisted used count is at least the configured limit
\* (sys.argv[10], the limit 0 included), the dialog is built without the
\* deferral menu.
C2_ExhaustedAtConfiguredLimit ==
    (pc = "communicate" /\ ~reopen_app /\ Used(defer_file) >= argLimit)
        => ~cyc.menu /\ prompt = "MESSAGE"

\* C3: with a configured limit of 14 and a receipt more than 120 days old, the
\* effective limit of the cycle is 0 and no deferral is offered, and the
\* persisted record's limit is 14 after the cycle, whether the record was
\* there before or was created in this cycle; with a younger receipt or none
\* the effective limit is 14.
C3_SlaOverrideNotPersisted ==
    (argLimit = 14 /\ Negotiated /\ CycleEnded)
        => IF cyc.receipt0 # NoFile /\ date_today - cyc.receipt0.date > 120
             THEN /\ cyc.limit = 0 /\ ~cyc.menu
                  /\ defer_file # NoFile /\ defer_file.limit = 14
             ELSE cyc.limit = 14

\* C4: with allowPrompt false, in a non-forced cycle of a running target, the
\* dialog before the install is never presented.
C4_NoDialogWithoutPrompt ==
    (~PROMPT /\ ~FORCE_QUIT /\ cyc.running0) => ~cyc.prompted

\* remove_daemons has run since the last set_deferral of this cycle
TimersCleared == pc = "for" \/ (pc = "exited" /\ cyc.reopened)

\* C5: in every reachable state at most one retry timer exists for the
\* identifier, and once a cycle has scheduled a retry (over whatever timer an
\* earlier cycle left) exactly one exists: the one scheduled last.
C5_AtMostOneRetryTimer ==
    /\ Cardinality(daemons) <= 1
    /\ (cyc.retries # <<>> /\ ~TimersCleared)
           => \E d \in daemons :
                  daemons = {d} /\ d.interval = cyc.retries[Len(cyc.retries)]

\* a retry scheduled over the timer an earlier cycle had left
C5_Witness ==
    /\ cyc.timers0 = 1 /\ cyc.retries = <<600>> /\ pc = "exited"
    /\ \E d \in daemons : daemons = {d} /\ d.interval = 600

\* C6: a cycle that finds the target not running dispatches the install,
\* removes every retry timer of the identifier, sets the receipt to today,
\* presents no dialog, makes no conflict check, sends no terminate signal, and
\* exits with status 0.
C6_NotRunningInstalls ==
    (cyc.bid # "none" /\ ~cyc.running0)
        => /\ pc = "exited" /\ cyc.exit = "0"
           /\ cyc.installed
           /\ daemons = {}
           /\ receipt_file = [date |-> date_today]
           /\ ~cyc.prompted /\ ~cyc.reopened
           /\ ~cyc.zoomed
           /\ ~cyc.handed /\ ~cyc.terminated /\ ~cyc.forced
           /\ cyc.retries = <<>>

\* such a cycle that found a retry timer and an older receipt
C6_Witness ==
    /\ cyc.bid # "none" /\ ~cyc.running0 /\ pc = "exited"
    /\ cyc.timers0 = 1 /\ daemons = {}
    /\ cyc.receipt0 # receipt_file

\* the menu durations and the signal jamfHelper prints for each with button 1
C7_Signals ==
    { <<600, <<"6", "0", "0", "1">> >>,
      <<1200, <<"1", "2", "0", "0", "1">> >>,
      <<3600, <<"3", "6", "0", "0", "1">> >>,
      <<10800, <<"1", "0", "8", "0", "0", "1">> >>,
      <<86400, <<"8", "6", "4", "0", "0", "1">> >>,
      <<172800, <<"1", "7", "2", "8", "0", "0", "1">> >> }

\* C7: in a non-forced negotiation with the menu shown, the signal of a menu
\* duration d followed by button 1 raises the persisted used count by exactly
\* 1 and leaves exactly one retry, of d seconds, the only one scheduled by the
\* cycle so far; with allowPrompt true the cycle exits there, with no
\* terminate signal and no install.
C7_MenuDeferral ==
    [][ \A m \in C7_Signals :
          (pc = "parse" /\ pc' # pc /\ ~reopen_app /\ ~FORCE_QUIT /\ cyc.menu
             /\ out = m[2])
            => /\ defer_file'.used = defer_file.used + 1
               /\ \E d \in daemons' : daemons' = {d} /\ d.interval = m[1]
               /\ cyc'.retries = <<m[1]>>
               /\ PROMPT => /\ pc' = "exited" /\ cyc'.exit = "0"
                            /\ ~cyc'.handed /\ ~cyc'.terminated /\ ~cyc'.forced
                            /\ ~cyc'.installed ]_vars

\* the cycle has exited on a two-day deferral, charged
C7_Witness ==
    /\ pc = "exited" /\ PROMPT /\ ~FORCE_QUIT /\ cyc.menu /\ cyc.kind = "defer"
    /\ cyc.retries = <<172800>>
    /\ Used(defer_file) = cyc.used0 + 1
    /\ ~cyc.handed /\ ~cyc.installed

\* C8: in a non-forced cycle with the menu shown, an empty result of a dialog
\* that ended by itself is a decline, not the unparseable outcome: no retry is
\* scheduled, the used count is unchanged, nothing is terminated or installed.
C8_EmptyIsDecline ==
    (~FORCE_QUIT /\ PROMPT /\ Negotiated /\ cyc.menu /\ cyc.empty /\ ~cyc.killed)
        => /\ cyc.kind = "skip"
           /\ cyc.retries = <<>>
           /\ Used(defer_file) = cyc.used0
           /\ ~cyc.handed /\ ~cyc.terminated /\ ~cyc.forced /\ ~cyc.installed

\* C9: in a non-forced cycle a killed or unparseable dialog result schedules
\* a retry of 3600 seconds, leaves the used count unchanged, and the target is
\* neither terminated nor installed in that cycle.
C9_UnparseableNeverProceeds ==
    (~FORCE_QUIT /\ Negotiated /\ cyc.kind = "unparseable")
        => /\ cyc.retries # <<>> /\ cyc.retries[1] = 3600
           /\ Used(defer_file) = cyc.used0
           /\ ~cyc.handed /\ ~cyc.terminated /\ ~cyc.forced /\ ~cyc.installed

Max0(n) == IF n > 0 THEN n ELSE 0

\* the counts of signals at each place of the loop of quit_application(bid)
C10_Counts ==
    ~FORCE_QUIT =>
      /\ pc = "quit_application"
           => /\ i \in 0..29
              /\ sig.nTerminate = i
              /\ sig.nForce <= Max0(i - 10)
              /\ running[bid] => sig.nForce = Max0(i - 10)
      /\ pc = "quit_escalate"
           => /\ i \in 0..29
              /\ sig.nTerminate = i + 1
              /\ sig.nForce <= Max0(i - 10)
              /\ running[bid] => sig.nForce = Max0(i - 10)
      /\ pc = "run_update_policy"
           => /\ i \in 0..30
              /\ sig.nForce <= Max0(i - 10)
              /\ i < 30 => ~running[bid] /\ sig.nTerminate = i
              /\ (i = 30 /\ running[bid]) => sig.nTerminate = 30 /\ sig.nForce = 20

\* the steps of the loop of quit_application(bid)
C10_Steps ==
    (~FORCE_QUIT /\ pc \in {"quit_application", "quit_escalate"} /\ pc' # pc)
        => /\ sig'.nForce = sig.nForce + 1
                <=> (pc = "quit_escalate" /\ i >= 10 /\ running[bid])
           /\ sig'.nForce \in {sig.nForce, sig.nForce + 1}
           /\ (pc = "quit_application" /\ ~running[bid])
                => pc' = "run_update_policy" /\ sig' = sig /\ i' = i
           /\ (pc = "quit_application" /\ running[bid])
                => pc' = "quit_escalate" /\ sig'.nTerminate = sig.nTerminate + 1
           /\ pc = "quit_escalate"
                => /\ i' = i + 1
                   /\ pc' = IF i = 29 THEN "run_update_policy" ELSE "quit_application"

\* C10: quit_application with force=false leaves its loop at the first pass
\* that finds the target not running; a forceful signal is sent in a pass t
\* exactly when t >= 10 and the target is still running after the graceful
\* signal of that pass; a target that never stops gets the graceful signal in
\* all 30 passes and the forceful one in passes 10..29, and the script then
\* goes on to the install.
C10_TerminationLoop == []C10_Counts /\ [][C10_Steps]_vars

\* the loop ran out on a target that never stopped
C10_Witness ==
    /\ pc = "run_update_policy" /\ ~FORCE_QUIT /\ i = 30 /\ running[bid]
    /\ sig.nTerminate = 30 /\ sig.nForce = 20

\* C11: with forceRequested true and the target running, whatever the dialog
\* returns: no conflict check is made, the termination controller sends
\* forceful signals only, one per tick, the install is dispatched, the
\* persisted used count is unchanged, and no retry timer remains when the
\* cycle ends.
C11_ForcedCycle ==
    (FORCE_QUIT /\ cyc.bid # "none" /\ cyc.running0)
        => /\ ~cyc.zoomed
           /\ ~cyc.terminated /\ sig.nTerminate = 0
           /\ pc = "quit_application" => sig.nForce <= i
           /\ pc = "quit_escalate" => sig.nForce <= i + 1
           /\ CycleEnded => /\ cyc.installed
                            /\ Used(defer_file) = cyc.used0
                            /\ daemons = {}

\* C12: with forceRequested true the dialog before the termination carries
\* the forced message and no deferral menu, whatever the ledger holds.
C12_ForcedMessage ==
    (FORCE_QUIT /\ cyc.prompted) => cyc.msg = "FORCE_MSG" /\ ~cyc.menu

\* during check_for_zoom: i passes have found activity, and nothing else has
\* happened in the cycle
C13_Polling ==
    pc = "check_for_zoom"
        => /\ ~FORCE_QUIT /\ cyc.running0 /\ cyc.zoomed
           /\ i \in 0..9
           /\ ~cyc.prompted /\ ~cyc.handed /\ ~cyc.installed /\ cyc.retries = <<>>

\* the steps of check_for_zoom and what run() does on its result
C13_Steps ==
    (pc = "check_for_zoom" /\ (pc' # pc \/ i' # i))
        => /\ pc' \in {"check_for_zoom", "user_prompt", "exited"}
           /\ pc' = "check_for_zoom" => i < 9 /\ i' = i + 1 /\ cyc' = cyc
           /\ pc' = "exited"
                => /\ i = 9
                   /\ cyc'.retries = <<3600>> /\ cyc'.exit = "0"
                   /\ \E d \in daemons' : daemons' = {d} /\ d.interval = 3600
                   /\ ~cyc'.prompted /\ ~cyc'.reopened
                   /\ ~cyc'.handed /\ ~cyc'.terminated /\ ~cyc'.forced
                   /\ ~cyc'.installed
                   /\ defer_file' = defer_file /\ Used(defer_file') = cyc.used0
           /\ pc' = "user_prompt"
                => ~reopen_app' /\ cyc' = cyc /\ daemons' = daemons

\* C13: in a non-forced cycle of a running target check_for_zoom makes at most
\* 10 polls; it reports busy only at the tenth poll, when all ten found
\* activity, and free at the first poll without activity; on busy the cycle
\* schedules exactly one retry, of 3600 seconds, and exits with no dialog, no
\* terminate signal, no install and the used count unchanged; on free the
\* negotiation is entered.
C13_ConflictCheck == []C13_Polling /\ [][C13_Steps]_vars

\* ten polls found activity and the cycle has exited on the one hour retry
C13_Witness ==
    /\ pc = "exited" /\ ~FORCE_QUIT /\ cyc.zoomed /\ i = 9
    /\ cyc.retries = <<3600>> /\ ~cyc.prompted /\ ~cyc.installed
    /\ \E d \in daemons : daemons = {d} /\ d.interval = 3600

\* C14: every cycle removes the retry timers of its identifier as its first
\* step, before the running check and before any prompt, so that until the
\* cycle schedules a retry of its own none exists; in particular none is left
\* after a cycle that a fired retry started and that ends in a decline.
C14_StaleTimersCleared ==
    /\ (cyc.bid # "none" /\ cyc.retries = <<>>) => daemons = {}
    /\ (pc = "exited" /\ cyc.timers0 > 0 /\ cyc.kind \in {"skip", "no"}
          /\ ~cyc.handed)
         => daemons = {}

\* C15: the dispatch of an install destroys the deferral record that the
\* negotiation reads, so that the next negotiation starts from a fresh record
\* with used = 0, whatever the used count was before the install.
C15_InstallDestroysLedger ==
    (cyc.installed /\ CycleEnded) => defer_file = NoFile

\* the completion dialog follows the install of a target that was running
C16_Offered ==
    (cyc.running0 /\ cyc.installed /\ CycleEnded) => cyc.reopened

\* the result of the completion dialog: 0 is button 1 (OK, also the default
\* the 60 s timeout resolves to), 2 is Cancel
C16_Steps ==
    (pc = "parse" /\ reopen_app /\ pc' # pc)
        => /\ (Parses(out) /\ exit_code(out) = 0) => cyc'.relaunched
           /\ cyc'.relaunched => (Parses(out) /\ exit_code(out) = 0)

\* C16: after the install of a target that was running, forced or not, the
\* completion dialog is presented, and /usr/bin/open is called if and only if
\* the user accepts (or the timeout resolves to the default button); Cancel
\* causes no relaunch.
C16_ReopenOnAccept == []C16_Offered /\ [][C16_Steps]_vars

\* C17: with POLICY_EVENT empty and with POLICY_EVENT "false" alike,
\* run_update_policy calls no jamf policy and writes no install receipt.
C17_NoPolicyWithoutEvent ==
    POLICY_EVENT \in {"", "false"} => ~cyc.installed /\ receipt_file = NoFile

\* a cycle leaves the receipt as it found it, or at today's date once it has
\* dispatched the install
C19_Receipt ==
    cyc.bid # "none"
        => IF cyc.installed THEN receipt_file = [date |-> date_today]
                            ELSE receipt_file = cyc.receipt0

\* the receipt is written by the step that dispatches the install only
C19_Steps == receipt_file' # receipt_file => (cyc'.installed /\ ~cyc.installed)

\* C19: the install receipt is written only by a dispatched install, and by
\* every one, whatever the installer's exit status: a cycle that ends in the
\* busy retry, a deferral, a decline, a timeout or an unparseable result
\* leaves it unchanged, and an install whose installer exits non-zero still
\* sets its date to today.
C19_ReceiptPerAttempt == []C19_Receipt /\ [][C19_Steps]_vars

\* the installer failed and the receipt, older before, carries today's date
C19_Witness ==
    /\ cyc.installed /\ cyc.failed /\ cyc.running0
    /\ cyc.receipt0 # NoFile /\ cyc.receipt0.date < date_today
    /\ receipt_file = [date |-> date_today]

\* accept now: button 1 with no delay (0) or with the delay "start now" (1)
Accepts(o) == Parses(o) /\ exit_code(o) \in {0, 1}

\* C20: in a non-forced negotiation with the menu shown, a parseable result
\* makes user_prompt() return True only when it is the accept-now selection;
\* every other parseable result that is not a deferral (button 2, 239)
\* makes it return False, whatever the exit status of jamfHelper: with
\* allowPrompt true the cycle then exits without calling quit_application.
C20_ProceedOnlyOnAccept ==
    [][ (pc = "parse" /\ pc' # pc /\ ~reopen_app /\ ~FORCE_QUIT /\ PROMPT
           /\ prompt = "DEFER_MESSAGE" /\ Parses(out) /\ ~Accepts(out))
          => pc' = "exited" /\ ~cyc'.handed ]_vars

\* an app is found under bundle ID b
C18_Installed(b) ==
    silent.plist[b].CFBundleVersion # "" \/ silent.plist[b].CFBundleShortVersionString # ""

\* the app found under bundle ID b carries the version to be installed
C18_UpToDate(b) ==
    \/ silent.plist[b].CFBundleVersion = silent.VERSION
    \/ silent.plist[b].CFBundleShortVersionString = silent.VERSION

\* the installed version already is VERSION: an app is found under one of the
\* bundle IDs, and every one that is found carries VERSION
C18_Matches ==
    /\ \E b \in Range(silent.APPS) : C18_Installed(b)
    /\ \A b \in Range(silent.APPS) : C18_Installed(b) => C18_UpToDate(b)

C18_NoneRunning == \A b \in Range(silent.APPS) : ~silent.running[b]

\* C18: silent_update calls the install policy only if none of the bundle IDs
\* is running and the installed version differs from VERSION: when one of
\* them is running it exits without installing, and when the installed
\* version already is VERSION it runs recon and exits without installing.
C18_SilentInstall ==
    /\ silent.policy => C18_NoneRunning /\ ~C18_Matches
    /\ (silent.pc = "exited" /\ ~C18_NoneRunning)
         => ~silent.policy /\ ~silent.recon
    /\ (silent.pc = "exited" /\ C18_NoneRunning /\ C18_Matches)
         => silent.recon /\ ~silent.policy

\* the loops are bounded: at most 10 polls, at most 30 ticks
C21_Bounded ==
    /\ pc = "check_for_zoom" => i \in 0..9
    /\ pc \in {"quit_application", "quit_escalate"} => i \in 0..29
    /\ pc = "run_update_policy" => i \in 0..30

\* C21: every cycle terminates whatever the environment does: with Zoom
\* activity that never ends, a dialog that never returns and an application
\* that never quits, the polling stops after 10 polls, the dialog is killed
\* by the timer, the termination loop stops after 30 ticks, and a script that
\* was started reaches its exit.
C21_CycleTerminates == []C21_Bounded /\ (pc # "idle" ~> pc = "exited")

\* a cycle has ended whose dialog the timer killed and whose application was
\* still running after the forceful signals
C21_Witness ==
    /\ pc = "exited" /\ ~FORCE_QUIT /\ cyc.killed /\ cyc.handed /\ cyc.forced
    /\ cyc.installed /\ cyc.reopened /\ ~cyc.relaunched /\ running[cyc.bid]

\* C22: over the runs for one identifier with a fixed configured limit, the
\* persisted used count never decreases, changes only by +1 and only on a
\* parsed deferral, and never exceeds the configured limit (sys.argv[10]).
C22_LedgerBudget ==
    /\ defer_file # NoFile => defer_file.used <= argLimit
    /\ cyc.bid # "none"
         => /\ Used(defer_file) >= cyc.used0
            /\ Used(defer_file) <= cyc.used0 + 1
            /\ Used(defer_file) = cyc.used0 + 1 => cyc.kind = "defer"

\* C23: in a run with several bundle IDs an install is dispatched only when
\* every listed bundle ID has been found not running or has been through
\* quit_application: none while a listed application that has not yet been
\* asked to quit is running.
C23_InstallAfterAllQuit ==
    (bidx <= Len(APPS) /\ cyc.bid = APPS[bidx] /\ cyc.installed)
        => \A k \in (bidx + 1)..Len(APPS) : ~running[APPS[k]]

====
